---- MODULE Spec2Model ----
(***************************************************************************)
(* A model of NDBC/NDBC.py: the DataBuoy station session, its availability *)
(* probe (__checkurl__), the payload parser / indexer / accumulator        *)
(* (load_stdmet) and the acquisition call (get_stdmet).                    *)
(*                                                                         *)
(* get_stdmet is split at its network round trips: the HEAD probe and the  *)
(* payload download are answered by the environment, everything between    *)
(* two round trips is one atomic step.                                     *)
(***************************************************************************)
EXTENDS Integers, Sequences, FiniteSets, Bags, TLC

VARIABLES
  _station_id,        \* attribute written by __init__ (line 52)
  station_id,         \* attribute read by get_stdmet (lines 137, 148, 157)
  stdmet,             \* self.data['stdmet']: the rows of the table, in frame order
  pc,                 \* position of the caller / of get_stdmet
  mode,               \* which branch of get_stdmet is running
  years, months,      \* the arguments of the running call
  k,                  \* explicit branch: number of periods already handled
  month_num,          \* default branch: the loop variable
  my_url,             \* the address being probed / fetched
  times_unavailable,  \* the advisory under construction
  result,             \* what the last call gave the caller
  calls,              \* number of get_stdmet calls started so far
  log,                \* history: the probes of the running call, with their answers
  loads,              \* history: the addresses load_stdmet was called with in this call
  base,               \* history: the table as it was when the running call began
  fetched,            \* history: the payload the last load_stdmet call was given
  merged_keys,        \* history: bag of the timestamps of every merged batch
  in_order            \* history: every merge so far appended a chronological
                      \* batch that starts no earlier than the table ended

vars == <<_station_id, station_id, stdmet, pc, mode, years, months, k, month_num,
          my_url, times_unavailable, result, calls, log, loads, base,
          fetched, merged_keys, in_order>>

-----------------------------------------------------------------------------
(* Bounds of the model *)

MaxPeriods == 2     \* most periods (years plus months) one call asks for
MaxRows == 2        \* most data rows in a payload
MaxTable == 3       \* rows the table may hold before a further merge is not explored
MaxCalls == 2       \* get_stdmet calls per session

UNSET == "<no attribute>"
NoUrl == [template |-> "", station |-> "", period |-> ""]
NoPayload == [header |-> <<>>, lines |-> <<>>]

Codes == {"46042", "41001"}
YearArgs == {2014, 2018}
MonthArgs == {4}
TodayMonths == {1, 12}
StatusCodes == {200, 404}

RECURSIVE SeqsUpTo(_, _)
SeqsUpTo(S, n) ==
  IF n = 0 THEN {<<>>}
  ELSE LET shorter == SeqsUpTo(S, n - 1)
       IN shorter \cup {Append(s, x) : s \in {t \in shorter : Len(t) = n - 1}, x \in S}

InSeq(x, s) == \E i \in 1..Len(s) : s[i] = x

IndexOf(x, s) == CHOOSE i \in 1..Len(s) : s[i] = x /\ \A j \in 1..(i - 1) : s[j] # x

-----------------------------------------------------------------------------
(* Resource addresses *)

\* strftime('%b') of the first day of month m (lines 135, 155)
MonthAbbrv(m) ==
  <<"Jan", "Feb", "Mar", "Apr", "May", "Jun",
    "Jul", "Aug", "Sep", "Oct", "Nov", "Dec">>[m]

\* STDMET_MONTHURL.format(month=..., station=...)
MonthUrl(station, m) ==
  [template |-> "STDMET_MONTHURL", station |-> station, period |-> MonthAbbrv(m)]

\* STDMET_YEARURL.format(station=..., year=...)
YearUrl(station, y) ==
  [template |-> "STDMET_YEARURL", station |-> station, period |-> ToString(y)]

\* a probe that takes every status below 500 for success
checkurl_lenient(status) == status < 500

\* res.status_code == 200
checkurl(status) == status = 200

-----------------------------------------------------------------------------
(* Payloads: a header line, then lines of whitespace separated fields.      *)
(* A line is either a textual line (a units row; hash tells whether its     *)
(* first field begins with '#') or a data line of numeric fields.           *)

Headers ==
  { <<"#YY", "MM", "DD", "hh", "mm", "WDIR">>,
    <<"YY", "MM", "DD", "hh", "WDIR">>,
    <<"YYYY", "MM", "DD", "hh", "mm", "WDIR">>,
    <<"XX", "MM", "DD", "hh", "WDIR">> }

\* observations as <<year, month, day, hour, minute, wind direction>>
Observations ==
  { <<2018, 4, 30, 23, 50, 309>>,
    <<2009, 5, 1, 0, 50, 304>>,
    <<96, 1, 1, 0, 0, 270>> }

FieldOf(col, o) ==
  CASE col \in {"#YY", "YY", "YYYY", "XX"} -> o[1]
    [] col = "MM" -> o[2]
    [] col = "DD" -> o[3]
    [] col = "hh" -> o[4]
    [] col = "mm" -> o[5]
    [] OTHER -> o[6]

DataLine(header, o) ==
  [text |-> FALSE, hash |-> FALSE, f |-> [i \in 1..Len(header) |-> FieldOf(header[i], o)]]

UnitsLine(header, hash) ==
  [text |-> TRUE, hash |-> hash, f |-> [i \in 1..Len(header) |-> 0]]

FirstLines == {"#units", "units", "data"}

MakePayload(header, first, obs) ==
  LET data == [i \in 1..Len(obs) |-> DataLine(header, obs[i])]
  IN [header |-> header,
      lines |-> CASE first = "#units" -> <<UnitsLine(header, TRUE)>> \o data
                  [] first = "units" -> <<UnitsLine(header, FALSE)>> \o data
                  [] OTHER -> data]

\* one line per observation: no observation twice in one payload
Distinct(obs) == \A i, j \in 1..Len(obs) : obs[i] = obs[j] => i = j

Payloads ==
  { MakePayload(h, u, obs) :
      h \in Headers, u \in FirstLines,
      obs \in {o \in SeqsUpTo(Observations, MaxRows) : Distinct(o)} }

\* the payloads the archive serves in the runs of get_stdmet: one observation
\* in the current format (units row), or in an older one (no units row, or a
\* plain year column)
ServedPayloads ==
  { MakePayload(<<"#YY", "MM", "DD", "hh", "mm", "WDIR">>, "#units", <<o>>) :
      o \in { <<2018, 4, 30, 23, 50, 309>>, <<2009, 5, 1, 0, 50, 304>> } }
  \cup { MakePayload(<<"#YY", "MM", "DD", "hh", "mm", "WDIR">>, "data",
                     << <<2009, 5, 1, 0, 50, 304>> >>),
         MakePayload(<<"YY", "MM", "DD", "hh", "WDIR">>, "#units",
                     << <<96, 1, 1, 0, 0, 270>> >>) }

-----------------------------------------------------------------------------
(* pandas / datetime helpers used by load_stdmet *)

\* pd.read_csv(url, '\s+'): the first line names the columns, the other lines
\* are labelled 0, 1, 2, ...; one textual line makes every column a column
\* of strings, otherwise the columns are numeric.
read_csv(p) ==
  [columns |-> p.header,
   dtype |-> IF \E i \in 1..Len(p.lines) : p.lines[i].text THEN "object" ELSE "int64",
   rows |-> [i \in 1..Len(p.lines) |-> [label |-> i - 1, line |-> p.lines[i]]]]

HasLabel(df, n) == \E i \in 1..Len(df.rows) : df.rows[i].label = n

RowAt(df, n) == df.rows[CHOOSE i \in 1..Len(df.rows) : df.rows[i].label = n]

\* data_df.drop([0])
drop(df, n) ==
  [df EXCEPT !.rows = SelectSeq(df.rows, LAMBDA r : r.label # n)]

\* the value of column col in a row
Cell(df, r, col) == r.line.f[IndexOf(col, df.columns)]

year_types == <<"YY", "YYYY", "#YY">>

\* dt_index_cols as built by lines 86-90
DtIndexCols(columns) ==
  IF InSeq("mm", columns) THEN <<"#YY", "MM", "DD", "hh", "mm">>
  ELSE <<"#YY", "MM", "DD", "hh">>

\* yt = [x for x in year_types if x in dt_index_cols][0]
YearType(dt_index_cols) ==
  SelectSeq(year_types, LAMBDA x : InSeq(x, dt_index_cols))[1]

\* int(math.floor(math.log(n, 10) + 1)) == 2, for n >= 1
TwoDigitYear(n) == n >= 10 /\ n < 100

\* data_df[yt] = data_df[yt] + 1900 on a numeric column
AddCentury(df, yt) ==
  [df EXCEPT !.rows =
     [i \in 1..Len(df.rows) |->
        [df.rows[i] EXCEPT !.line.f[IndexOf(yt, df.columns)] = @ + 1900]]]

IsLeap(y) == (y % 4 = 0 /\ y % 100 # 0) \/ y % 400 = 0

DaysIn(y, m) ==
  CASE m \in {4, 6, 9, 11} -> 30
    [] m = 2 -> IF IsLeap(y) THEN 29 ELSE 28
    [] OTHER -> 31

\* dt.strptime accepts the components: %Y is four digits, the others a valid
\* calendar date and time of day
ValidDate(y, m, d, h, mi) ==
  /\ y >= 1000 /\ y <= 9999
  /\ m >= 1 /\ m <= 12
  /\ d >= 1 /\ d <= DaysIn(y, m)
  /\ h >= 0 /\ h <= 23
  /\ mi >= 0 /\ mi <= 59

\* the components of a row under the index columns; no %M means minute 0
Components(df, r, cols) ==
  <<Cell(df, r, cols[1]), Cell(df, r, cols[2]), Cell(df, r, cols[3]),
    Cell(df, r, cols[4]), IF Len(cols) = 5 THEN Cell(df, r, cols[5]) ELSE 0>>

\* the row once its index columns became the index: the timestamp and the
\* values of the other columns
Indexed(df, r, cols) ==
  [ts |-> Components(df, r, cols),
   vals |-> LET rest == SelectSeq([i \in 1..Len(df.columns) |-> i],
                                  LAMBDA i : ~InSeq(df.columns[i], cols))
            IN [j \in 1..Len(rest) |-> r.line.f[rest[j]]]]

\* an append that drops the rows whose timestamp the table already holds
append_dedup(table, batch) ==
  table \o SelectSeq(batch, LAMBDA r : \A i \in 1..Len(table) : table[i].ts # r.ts)

\* an append with its operands swapped: the new rows come first
append_front(table, batch) == batch \o table

\* DataFrame.append: the rows of the new frame after the rows of the old one
append(table, batch) == table \o batch

\* the strptime loop of lines 103-104 fails on the first bad row
BadRow(df, r, cols) ==
  \/ r.line.text
  \/ LET c == Components(df, r, cols)
     IN ~ValidDate(c[1], c[2], c[3], c[4], c[5])

Raise(e, table) == [raised |-> e, table |-> table]

\* lines 86-106 on the frame left by line 84: the indexed batch, or the
\* exception raised on the way
IndexBatch(df) ==
  LET cols == DtIndexCols(df.columns)
      yt == YearType(cols)
  IN IF ~InSeq(yt, df.columns) THEN Raise("KeyError", <<>>)
     ELSE IF ~HasLabel(df, 1) THEN Raise("KeyError", <<>>)
     ELSE IF RowAt(df, 1).line.text THEN Raise("ValueError", <<>>)
     ELSE IF Cell(df, RowAt(df, 1), yt) <= 0 THEN Raise("ValueError", <<>>)
     ELSE IF TwoDigitYear(Cell(df, RowAt(df, 1), yt)) /\ df.dtype = "object"
          THEN Raise("TypeError", <<>>)
     ELSE LET df2 == IF TwoDigitYear(Cell(df, RowAt(df, 1), yt))
                     THEN AddCentury(df, yt) ELSE df
          IN IF \E i \in 2..Len(cols) : ~InSeq(cols[i], df2.columns)
             THEN Raise("KeyError", <<>>)
             ELSE IF Len(df2.rows) > 0 /\ df2.dtype # "object"
                  THEN Raise("TypeError", <<>>)
             ELSE IF \E i \in 1..Len(df2.rows) : BadRow(df2, df2.rows[i], cols)
                  THEN Raise("ValueError", <<>>)
             ELSE Raise("none", [i \in 1..Len(df2.rows) |->
                                   Indexed(df2, df2.rows[i], cols)])

\* lines 80-106: the units row test and removal, then the indexing
ParseBatch(p) ==
  LET df == read_csv(p)
  IN IF ~HasLabel(df, 0) THEN Raise("KeyError", <<>>)
     ELSE IF ~RowAt(df, 0).line.text THEN Raise("IndexError", <<>>)
     ELSE IF RowAt(df, 0).line.hash THEN IndexBatch(drop(df, 0))
     ELSE IndexBatch(df)

\* ParseBatch on every payload of the model, evaluated once
Parsed == [p \in Payloads |-> ParseBatch(p)]

\* a load_stdmet that swallows whatever the parsing raises and merges what
\* it got
load_stdmet_swallow(table, p) == Raise("none", append(table, Parsed[p].table))

\* load_stdmet(url), given the payload p the download of url delivered:
\* the table is reassigned (line 108) only when nothing was raised before
load_stdmet(table, p) ==
  IF Parsed[p].raised # "none" THEN Raise(Parsed[p].raised, table)
  ELSE Raise("none", append(table, Parsed[p].table))

-----------------------------------------------------------------------------

(* History kept for the properties: what a successful merge of payload p    *)
(* contributes, read off the payload itself.                                *)

\* the timestamps of the data lines of p, in payload order
PayloadKeys(p) ==
  LET data == SelectSeq(p.lines, LAMBDA l : ~l.text)
      at(l, col) == l.f[IndexOf(col, p.header)]
      yc == IF \E c \in {"#YY", "YY", "YYYY"} : InSeq(c, p.header)
            THEN CHOOSE c \in {"#YY", "YY", "YYYY"} : InSeq(c, p.header)
            ELSE p.header[1]
  IN [i \in 1..Len(data) |->
        <<at(data[i], yc), at(data[i], "MM"), at(data[i], "DD"), at(data[i], "hh"),
          IF InSeq("mm", p.header) THEN at(data[i], "mm") ELSE 0>>]

RECURSIVE TsLeq(_, _)
\* chronological order of timestamps <<year, month, day, hour, minute>>
TsLeq(a, b) ==
  IF Len(a) = 0 THEN TRUE
  ELSE IF a[1] # b[1] THEN a[1] < b[1]
  ELSE TsLeq(Tail(a), Tail(b))

Chronological(keys) == \A i \in 1..(Len(keys) - 1) : TsLeq(keys[i], keys[i + 1])

KeysOf(table) == [i \in 1..Len(table) |-> table[i].ts]

RECURSIVE BagOfSeq(_)
BagOfSeq(s) == IF Len(s) = 0 THEN EmptyBag ELSE SetToBag({Head(s)}) (+) BagOfSeq(Tail(s))

-----------------------------------------------------------------------------
(* The session and get_stdmet *)

Pending == [kind |-> "pending", text |-> <<>>, error |-> ""]
Raised(e) == [kind |-> "raise", text |-> <<>>, error |-> e]

\* lines 163-164: the advisory when it is not empty, else None
Return(tu) ==
  IF Len(tu) > 0 THEN [kind |-> "str", text |-> tu, error |-> ""]
  ELSE [kind |-> "None", text |-> <<>>, error |-> ""]

\* __init__(station_id): _station_id is set when a station code is given,
\* the table starts empty; nothing else is assigned.
Init ==
  /\ _station_id \in Codes \cup {UNSET}
  /\ station_id = UNSET
  /\ stdmet = <<>>
  /\ pc = "idle"
  /\ mode = "none"
  /\ years = <<>> /\ months = <<>>
  /\ k = 0
  /\ month_num = 0
  /\ my_url = NoUrl
  /\ times_unavailable = <<>>
  /\ result = [kind |-> "None", text |-> <<>>, error |-> ""]
  /\ calls = 0
  /\ log = <<>>
  /\ loads = <<>>
  /\ base = <<>>
  /\ fetched = NoPayload
  /\ merged_keys = EmptyBag
  /\ in_order = TRUE

Idle == pc \in {"idle", "returned", "raised"}

\* The class never assigns the attribute get_stdmet reads; a caller that
\* wants an address built has to assign it on the instance.
SetStationId(c) ==
  /\ Idle
  /\ station_id = UNSET
  /\ station_id' = c
  /\ UNCHANGED <<_station_id, stdmet, pc, mode, years, months, k, month_num, my_url,
                 times_unavailable, result, calls, log, loads, base, fetched,
                 merged_keys, in_order>>

\* the explicit branch moves on to period kk + 1 (years first, then months)
\* with advisory tu, or returns when every period was handled
ExplicitStep(ys, ms, kk, tu) ==
  /\ k' = kk
  /\ times_unavailable' = tu
  /\ month_num' = 0
  /\ IF kk >= Len(ys) + Len(ms)
     THEN pc' = "returned" /\ result' = Return(tu) /\ my_url' = NoUrl
     ELSE IF station_id = UNSET
     THEN pc' = "raised" /\ result' = Raised("AttributeError") /\ my_url' = NoUrl
     ELSE /\ pc' = "head"
          /\ result' = Pending
          /\ my_url' = IF kk < Len(ys) THEN YearUrl(station_id, ys[kk + 1])
                       ELSE MonthUrl(station_id, ms[kk + 1 - Len(ys)])

\* the default branch at its loop test (line 134) with loop variable mn,
\* advisory tu and the last probe's answer valid
DefaultStep(mn, tu, valid, url, history) ==
  /\ times_unavailable' = tu
  /\ k' = 0
  /\ IF mn >= 0 /\ ~valid
     THEN IF mn < 1 \/ mn > 12
          THEN /\ pc' = "raised" /\ result' = Raised("ValueError")
               /\ my_url' = NoUrl /\ month_num' = 0 /\ loads' = history
          ELSE IF station_id = UNSET
          THEN /\ pc' = "raised" /\ result' = Raised("AttributeError")
               /\ my_url' = NoUrl /\ month_num' = 0 /\ loads' = history
          ELSE /\ pc' = "head" /\ result' = Pending
               /\ my_url' = MonthUrl(station_id, mn) /\ month_num' = mn
               /\ loads' = history
     ELSE /\ pc' = "get" /\ result' = Pending
          /\ my_url' = url /\ month_num' = mn
          /\ loads' = Append(history, url)

\* get_stdmet(years, months) up to its first round trip
GetStdmet(ys, ms) ==
  /\ Idle
  /\ calls < MaxCalls
  /\ calls' = calls + 1
  /\ years' = ys /\ months' = ms
  /\ log' = <<>>
  /\ base' = stdmet
  /\ IF Len(ys) = 0 /\ Len(ms) = 0
     THEN /\ mode' = "default"
          /\ \E today \in TodayMonths : DefaultStep(today, <<>>, FALSE, NoUrl, <<>>)
     ELSE /\ mode' = "explicit"
          /\ loads' = <<>>
          /\ ExplicitStep(ys, ms, 0, <<>>)
  /\ UNCHANGED <<_station_id, station_id, stdmet, fetched, merged_keys, in_order>>

\* requests.head(my_url) answers with a status code
HeadAnswer(status) ==
  /\ pc = "head"
  /\ log' = Append(log, [url |-> my_url, status |-> status])
  /\ IF mode = "explicit"
     THEN IF checkurl(status)
          THEN /\ pc' = "get"
               /\ loads' = Append(loads, my_url)
               /\ UNCHANGED <<k, month_num, my_url, times_unavailable, result>>
          ELSE /\ loads' = loads
               /\ ExplicitStep(years, months, k + 1,
                    Append(times_unavailable,
                      IF k < Len(years)
                      THEN <<"Year ", ToString(years[k + 1]), " not available.\n">>
                      ELSE <<MonthAbbrv(months[k + 1 - Len(years)]), " not available.\n">>))
     ELSE DefaultStep(month_num - 1,
                      IF checkurl(status) THEN times_unavailable
                      ELSE Append(times_unavailable,
                                  <<MonthAbbrv(month_num), " not available.\n ">>),
                      checkurl(status), my_url, loads)
  /\ UNCHANGED <<_station_id, station_id, stdmet, mode, years, months, calls, base,
                 fetched, merged_keys, in_order>>

\* requests.head(my_url) raises instead of answering
HeadFails ==
  /\ pc = "head"
  /\ log' = Append(log, [url |-> my_url, status |-> 0])
  /\ pc' = "raised"
  /\ result' = Raised("ConnectionError")
  /\ my_url' = NoUrl /\ month_num' = 0
  /\ UNCHANGED <<_station_id, station_id, stdmet, mode, years, months, k,
                 times_unavailable, calls, loads, base, fetched, merged_keys, in_order>>

\* load_stdmet(my_url) on the payload p the download delivers, and what
\* get_stdmet does next
Download(p) ==
  /\ pc = "get"
  /\ LET r == load_stdmet(stdmet, p)
     IN /\ Len(r.table) <= MaxTable
        /\ stdmet' = r.table
        /\ IF r.raised # "none"
           THEN /\ pc' = "raised"
                /\ result' = Raised(r.raised)
                /\ my_url' = NoUrl /\ month_num' = 0
                /\ UNCHANGED <<k, times_unavailable, merged_keys, in_order>>
           ELSE /\ merged_keys' = merged_keys (+) BagOfSeq(PayloadKeys(p))
                /\ in_order' = (/\ in_order
                                /\ Chronological(KeysOf(stdmet) \o PayloadKeys(p)))
                /\ IF mode = "explicit"
                   THEN ExplicitStep(years, months, k + 1, times_unavailable)
                   ELSE /\ pc' = "returned"
                        /\ result' = Return(times_unavailable)
                        /\ my_url' = NoUrl /\ month_num' = 0
                        /\ UNCHANGED <<k, times_unavailable>>
  /\ fetched' = p
  /\ UNCHANGED <<_station_id, station_id, mode, years, months, calls, log, loads, base>>

\* load_stdmet(url) called directly on the session; the download of url
\* delivers payload p
LoadStdmet(p) ==
  /\ Idle
  /\ LET r == load_stdmet(stdmet, p)
     IN /\ Len(r.table) <= MaxTable
        /\ stdmet' = r.table
        /\ IF r.raised # "none"
           THEN /\ pc' = "raised"
                /\ result' = Raised(r.raised)
                /\ UNCHANGED <<merged_keys, in_order>>
           ELSE /\ pc' = "returned"
                /\ result' = Return(<<>>)
                /\ merged_keys' = merged_keys (+) BagOfSeq(PayloadKeys(p))
                /\ in_order' = (/\ in_order
                                /\ Chronological(KeysOf(stdmet) \o PayloadKeys(p)))
  /\ fetched' = p
  /\ base' = stdmet
  /\ UNCHANGED <<_station_id, station_id, mode, years, months, k, month_num, my_url,
                 times_unavailable, calls, log, loads>>

\* the download itself fails: pd.read_csv raises
DownloadFails ==
  /\ pc = "get"
  /\ pc' = "raised"
  /\ result' = Raised("URLError")
  /\ my_url' = NoUrl /\ month_num' = 0
  /\ UNCHANGED <<_station_id, station_id, stdmet, mode, years, months, k,
                 times_unavailable, calls, log, loads, base, fetched, merged_keys,
                 in_order>>

Next ==
  \/ \E c \in Codes : SetStationId(c)
  \/ \E ys \in SeqsUpTo(YearArgs, MaxPeriods), ms \in SeqsUpTo(MonthArgs, MaxPeriods) :
       Len(ys) + Len(ms) <= MaxPeriods /\ GetStdmet(ys, ms)
  \/ \E status \in StatusCodes : HeadAnswer(status)
  \/ HeadFails
  \/ \E p \in ServedPayloads : Download(p)
  \/ DownloadFails

Spec == Init /\ [][Next]_vars

\* load_stdmet called by itself, on every payload shape of the model
LoadNext == \E p \in Payloads : LoadStdmet(p)

LoadSpec == Init /\ [][LoadNext]_vars

-----------------------------------------------------------------------------
(* Properties *)

CallOver == pc \in {"returned", "raised"}

NPeriods == Len(years) + Len(months)

\* the address and the advisory entry of the i-th requested period, years
\* first and months after them
PeriodUrl(i) ==
  IF i <= Len(years) THEN YearUrl(station_id, years[i])
  ELSE MonthUrl(station_id, months[i - Len(years)])

PeriodEntry(i) ==
  IF i <= Len(years) THEN <<"Year ", ToString(years[i]), " not available.\n">>
  ELSE <<MonthAbbrv(months[i - Len(years)]), " not available.\n">>

\* the probes of the running call that were answered 200 / answered otherwise
\* (status 0 stands for a probe that raised instead of answering)
ProbesWhere(test(_)) == SelectSeq([i \in 1..Len(log) |-> i], test)
Available == ProbesWhere(LAMBDA i : log[i].status = 200)
Unavailable == ProbesWhere(LAMBDA i : log[i].status \notin {0, 200})

\* the payloads of the current format with well formed observations: the
\* header of the current format, a units row or none, four digit years
CurrentFormat(p) ==
  /\ p.header = <<"#YY", "MM", "DD", "hh", "mm", "WDIR">>
  /\ Len(p.lines) > 0
  /\ \A i \in 1..Len(p.lines) : p.lines[i].text => i = 1 /\ p.lines[i].hash
  /\ \E i \in 1..Len(p.lines) : ~p.lines[i].text
  /\ \A i \in 1..Len(PayloadKeys(p)) : PayloadKeys(p)[i][1] >= 1000

C2_KeysAreUnique ==
  Len(stdmet) = Cardinality(BagToSet(merged_keys))

\* C2 as amended. After any sequence of successful fetches every timestamp
\* occurs in the table exactly as often as it occurs in the merged batches:
\* the table is as long as the merged batches together, duplicates are kept.
C2_KeysAreKept ==
  /\ BagOfSeq(KeysOf(stdmet)) = merged_keys
  /\ Len(stdmet) = BagCardinality(merged_keys)

C2_Witness ==
  /\ Len(stdmet) = 3
  /\ stdmet[1].ts = stdmet[3].ts
  /\ stdmet[1].ts # stdmet[2].ts
  /\ pc = "returned"

\* C3. For every payload fetched from an available resource, with a units
\* row or without one, the first row is removed exactly when its first field
\* begins with '#' and every other row appears exactly once in the table
\* under the timestamp composed from its date and time fields.
C3_EveryRowIsMerged ==
  (CallOver /\ CurrentFormat(fetched)) =>
     /\ pc = "returned"
     /\ KeysOf(stdmet) = KeysOf(base) \o PayloadKeys(fetched)

\* C4. A session constructed with a station code keeps it, every address
\* get_stdmet probes or fetches is built from that code, and get_stdmet on a
\* freshly constructed session reaches its first probe.
C4_AddressesUseTheConstructedCode ==
  _station_id # UNSET =>
     /\ \A i \in 1..Len(log) : log[i].url.station = _station_id
     /\ \A i \in 1..Len(loads) : loads[i].station = _station_id
     /\ (calls > 0 /\ Len(log) = 0 => result # Raised("AttributeError"))

\* C5. A probe that fails (the HEAD request raises) counts as 'not
\* available': the period is listed in the advisory and nothing is raised.
C5_FailedProbeIsUnavailable ==
  (Len(log) > 0 /\ log[Len(log)].status = 0) =>
     /\ pc # "raised"
     /\ Len(times_unavailable) > 0

\* C6. A payload whose year column is named 'YY' or 'YYYY' (with MM DD hh)
\* is recognised: that column is the year of the timestamps and the batch is
\* merged.
C6_PlainYearColumnIsRecognised ==
  (/\ CallOver
   /\ Len(fetched.header) > 0 /\ fetched.header[1] \in {"YY", "YYYY"}
   /\ Len(fetched.lines) > 1
   /\ fetched.lines[1].text /\ fetched.lines[1].hash
   /\ \A i \in 2..Len(fetched.lines) : ~fetched.lines[i].text
   /\ \A i \in 1..Len(PayloadKeys(fetched)) : PayloadKeys(fetched)[i][1] >= 1000)
  => /\ pc = "returned"
     /\ KeysOf(stdmet) = KeysOf(base) \o PayloadKeys(fetched)

\* the timestamps C7 asks for: 1900 added to every year when the first
\* row's year has two digits
NormalisedKeys(p) ==
  LET keys == PayloadKeys(p)
  IN [i \in 1..Len(keys) |->
        IF keys[1][1] >= 10 /\ keys[1][1] < 100
        THEN <<keys[i][1] + 1900, keys[i][2], keys[i][3], keys[i][4], keys[i][5]>>
        ELSE keys[i]]

\* C7. The two digit year decision is taken once per batch from the first
\* data row: with a two digit year there, 1900 is added to every row's year
\* (96 becomes 1996), with a four digit year the years stay as they are.
C7_TwoDigitYearsAreNormalised ==
  (/\ CallOver
   /\ fetched.header = <<"#YY", "MM", "DD", "hh", "mm", "WDIR">>
   /\ Len(fetched.lines) > 1
   /\ fetched.lines[1].text /\ fetched.lines[1].hash
   /\ \A i \in 1..Len(PayloadKeys(fetched)) :
        PayloadKeys(fetched)[i][1] >= 1000 <=> PayloadKeys(fetched)[1][1] >= 1000)
  => /\ pc = "returned"
     /\ KeysOf(stdmet) = KeysOf(base) \o NormalisedKeys(fetched)

\* the month before the one a monthly address names
MonthBefore(abbrv) ==
  LET m == CHOOSE i \in 1..12 : MonthAbbrv(i) = abbrv
  IN MonthAbbrv(IF m = 1 THEN 12 ELSE m - 1)

\* C8. Called without years and months, get_stdmet probes the monthly
\* addresses one month back at a time, stops at the first available one and
\* loads that one only; it makes at most twelve probes, and when every
\* probed month was answered 'not available' it returns the advisory, raises
\* nothing and loads nothing.
C8_DefaultSearchEndsWithTheAdvisory ==
  mode = "default" =>
     /\ Len(log) <= 12
     /\ \A i \in 1..(Len(log) - 1) :
          /\ log[i].status # 200
          /\ log[i + 1].url.period = MonthBefore(log[i].url.period)
     /\ \A i \in 1..Len(loads) : i = 1 /\ loads[i] = log[Len(log)].url
     /\ (CallOver /\ Len(log) > 0 /\ Len(Unavailable) = Len(log)) =>
           /\ pc = "returned"
           /\ result = Return(times_unavailable)
           /\ stdmet = base
           /\ Len(loads) = 0

\* C9. A payload whose header has none of 'YY', 'YYYY', '#YY' makes
\* load_stdmet raise, and the table stays exactly as it was before.
C9_UnknownHeaderIsFatal ==
  (/\ CallOver
   /\ fetched # NoPayload
   /\ \A i \in 1..Len(year_types) : ~InSeq(year_types[i], fetched.header))
  => /\ pc = "raised"
     /\ result.kind = "raise"
     /\ stdmet = base

C9_Witness ==
  /\ pc = "raised"
  /\ fetched # NoPayload
  /\ fetched.header[1] = "XX"
  /\ Len(fetched.lines) = 3 /\ fetched.lines[1].hash
  /\ fetched.lines[2].f[1] = 2018
  /\ Len(stdmet) = 2

\* C10 as stated. After any sequence of successful merges the rows of the
\* table are in chronological order.
C10_TableIsChronological ==
  Chronological(KeysOf(stdmet))

\* C10 as amended. The rows of the table are in the order they were merged;
\* they are in chronological order whenever every merged payload was
\* chronological and began no earlier than the table ended when it was
\* merged.
C10_ChronologicalWhenMergedInOrder ==
  in_order => Chronological(KeysOf(stdmet))

C10_Witness ==
  /\ in_order
  /\ calls = 2
  /\ Len(stdmet) = 2
  /\ stdmet[1].ts # stdmet[2].ts
  /\ Len(base) = 1
  /\ pc = "returned"

====
